---- MODULE Spec2Model ----
(***************************************************************************)
(* Model of src/src/capture.rs: CaptureManager (new, capture, change_size, *)
(* Drop) and CaptureData (bits, Drop), together with the GDI objects the   *)
(* code acquires and releases (window DC, memory DC, DIB-section bitmaps). *)
(***************************************************************************)
EXTENDS Integers, Sequences, FiniteSets, TLC

\* Largest number of DIB sections created in one behaviour.
MaxBitmaps == 2

\* i32 range of top_left, wh, biWidth, biHeight.
MaxI32 == 2147483647
MinI32 == -MaxI32 - 1

\* Regions <<top_left, wh>> the caller passes: two small ones of different
\* width, a negative height, a zero height, and one whose area times 3
\* exceeds MaxI32.
Regions == { <<<<0, 0>>, <<1, 1>>>>, <<<<3, 4>>, <<2, 1>>>>, <<<<0, 0>>, <<1, -1>>>>,
             <<<<0, 0>>, <<1, 0>>>>, <<<<3, 4>>, <<30000, 30000>>>> }
\* Window handles the caller passes: 1 is a window that exists until it is
\* destroyed, 2 names no window.  (0, the desktop, behaves as a window that is
\* never destroyed.)
Hwnds == {1, 2}

(***************************************************************************)
(* i32 arithmetic.  The wrapped value is what a build without overflow     *)
(* checks computes, ov tells whether a build with overflow checks panics.  *)
(***************************************************************************)
AddOv(a, b) == \/ (a > 0 /\ b > 0 /\ a > MaxI32 - b)
               \/ (a < 0 /\ b < 0 /\ a < MinI32 - b)

Add32(a, b) == IF a > 0 /\ b > 0 /\ a > MaxI32 - b
                 THEN (a - MaxI32 - 1) + (b - MaxI32 - 1)
               ELSE IF a < 0 /\ b < 0 /\ a < MinI32 - b
                 THEN (a + MaxI32 + 1) + (b + MaxI32 + 1)
               ELSE a + b

RECURSIVE MulNat(_, _)
MulNat(a, n) ==
    IF n = 0 THEN [v |-> 0, ov |-> FALSE]
    ELSE LET h == MulNat(a, n \div 2)
             d == [v |-> Add32(h.v, h.v), ov |-> h.ov \/ AddOv(h.v, h.v)]
         IN  IF n % 2 = 1
               THEN [v |-> Add32(d.v, a), ov |-> d.ov \/ AddOv(d.v, a)]
               ELSE d

Mul32(a, b) ==
    IF b >= 0 THEN MulNat(a, b)
    ELSE IF b = MinI32 THEN [v |-> IF a % 2 = 0 THEN 0 ELSE MinI32, ov |-> a \notin {0, 1}]
    ELSE IF a = MinI32 THEN [v |-> IF b % 2 = 0 THEN 0 ELSE MinI32, ov |-> TRUE]
    ELSE MulNat(-a, -b)

\* self.wh.0 * self.wh.1 * 3
SliceLen32(wh) ==
    LET m1 == Mul32(wh[1], wh[2])
        m2 == Mul32(m1.v, 3)
    IN  [v |-> m2.v, ov |-> m1.ov \/ m2.ov]

\* (i32) as usize: sign extension.  The record denotes off * 2^64 + val.
AsUsize(v) == [off |-> IF v < 0 THEN 1 ELSE 0, val |-> v]

Abs(x) == IF x < 0 THEN -x ELSE x

VARIABLES overflow_checks, window_alive, mgr, dc_acquired, dc_released,
          dc_mem_state, dc_mem_deletes, selected, bitmaps, held, dropped,
          view, last

vars == <<overflow_checks, window_alive, mgr, dc_acquired, dc_released,
          dc_mem_state, dc_mem_deletes, selected, bitmaps, held, dropped,
          view, last>>

NoArgs == <<>>
NoBlit == <<>>

\* The record of the last operation.  A capture records whether it directly
\* follows a change_size, and then that call's arguments.
Event(op, res, args, data, blit, dangling) ==
    LET after == op = "capture" /\ last.op = "change_size"
    IN  [op |-> op, after_change |-> after, res |-> res,
         args |-> IF op = "capture" /\ ~after THEN NoArgs ELSE args,
         data |-> data, blit |-> blit, dangling |-> dangling]

\* The build either checks i32 arithmetic for overflow (and panics) or wraps.
\* Which one it is shows, and is fixed from then on, the first time a
\* multiplication overflows.
Builds(ov) ==
    IF ov /\ overflow_checks = "unobserved" THEN {"on", "off"} ELSE {overflow_checks}

\* No CaptureManager value exists: not yet constructed, construction failed,
\* or dropped.
NoManager(state) ==
    [state |-> state, top_left |-> <<0, 0>>, wh |-> <<0, 0>>,
     dc |-> 0, dc_mem |-> 0, window_handle |-> 0, biWidth |-> 0, biHeight |-> 0]

Init ==
    /\ overflow_checks = "unobserved"
    /\ window_alive = TRUE
    /\ mgr = NoManager("none")
    /\ dc_acquired = 0
    /\ dc_released = 0
    /\ dc_mem_state = "none"
    /\ dc_mem_deletes = 0
    /\ selected = 0
    /\ bitmaps = <<>>
    /\ held = {}
    /\ dropped = {}
    /\ view = 0
    /\ last = [op |-> "init", after_change |-> FALSE, res |-> "none", args |-> NoArgs,
               data |-> 0, blit |-> NoBlit, dangling |-> FALSE]

\* GetDC(window_handle) yields a valid DC for the desktop or an existing window.
GetDCValid(hwnd) == hwnd = 0 \/ (hwnd = 1 /\ window_alive)

\* The DC of a destroyed window is no longer usable as a blit source.
DcValid == mgr.window_handle = 0 \/ window_alive

New(hwnd, top_left, wh) ==
    /\ mgr.state = "none"
    /\ LET neg == Mul32(wh[2], -1)
           failed == NoManager("failed")
       IN
       IF ~GetDCValid(hwnd)
         THEN /\ mgr' = failed
              /\ last' = Event("new", "AcquisitionError", <<top_left, wh>>, 0, NoBlit, FALSE)
              /\ UNCHANGED <<dc_acquired, dc_mem_state, overflow_checks>>
       ELSE \E memOk \in BOOLEAN :
         IF ~memOk
           THEN /\ mgr' = failed
                /\ dc_acquired' = dc_acquired + 1
                /\ last' = Event("new", "AcquisitionError", <<top_left, wh>>, 0, NoBlit, FALSE)
                /\ UNCHANGED <<dc_mem_state, overflow_checks>>
         ELSE \E build \in Builds(neg.ov) :
           /\ overflow_checks' = build
           /\ dc_acquired' = dc_acquired + 1
           /\ dc_mem_state' = "live"
           /\ IF neg.ov /\ build = "on"
                THEN /\ mgr' = failed
                     /\ last' = Event("new", "panic", <<top_left, wh>>, 0, NoBlit, FALSE)
                ELSE /\ mgr' = [state |-> "live", top_left |-> top_left, wh |-> wh,
                                dc |-> 1, dc_mem |-> 1, window_handle |-> hwnd,
                                biWidth |-> wh[1], biHeight |-> neg.v]
                     /\ last' = Event("new", "Ok", <<top_left, wh>>, 0, NoBlit, FALSE)
    /\ UNCHANGED <<window_alive, dc_released, dc_mem_deletes,
                   selected, bitmaps, held, dropped, view>>

\* CreateDIBSection(dc, &bitmap_info, ...) rejects a non-positive width and a
\* zero height, and can fail for lack of memory.
CreateDIBSectionOk(m, allocOk) == allocOk /\ m.biWidth > 0 /\ m.biHeight # 0

\* The result of BitBlt is not looked at.
BlitFailed_ignored(result) == FALSE

\* if !result.as_bool() { return Err(..) }
BlitFailed(result) == ~result

\* A capture that re-derives the format width from wh.
SelfAfterCapture_resync(m) == [m EXCEPT !.biWidth = m.wh[1]]

\* capture takes &self and assigns to none of its fields.
SelfAfterCapture(m) == m

Capture ==
    /\ mgr.state = "live"
    /\ Len(bitmaps) < MaxBitmaps
    /\ \E allocOk \in BOOLEAN :
         IF ~CreateDIBSectionOk(mgr, allocOk)
           THEN /\ last' = Event("capture", "AllocationError", last.args, 0, NoBlit, FALSE)
                /\ UNCHANGED <<selected, bitmaps, held, overflow_checks>>
         ELSE \E selOk, bltOk \in BOOLEAN :
           LET hbitmap == Len(bitmaps) + 1
               \* SelectObject(dc_mem, hbitmap); its result is not looked at
               sel == IF selOk THEN hbitmap ELSE selected
               blit == <<sel, mgr.top_left[1], mgr.top_left[2], mgr.wh[1], mgr.wh[2]>>
               result == DcValid /\ bltOk
               n == SliceLen32(mgr.wh)
               len == AsUsize(n.v)
           IN
           /\ bitmaps' = Append(bitmaps, [alive |-> TRUE, bw |-> mgr.biWidth,
                                          bh |-> Abs(mgr.biHeight), deletes |-> 0])
           /\ selected' = sel
           /\ IF BlitFailed(result)
                THEN /\ last' = Event("capture", "CopyError", last.args, 0, blit, FALSE)
                     /\ UNCHANGED <<held, overflow_checks>>
              ELSE \E build \in Builds(n.ov) :
                /\ overflow_checks' = build
                /\ IF n.ov /\ build = "on"
                     THEN /\ last' = Event("capture", "panic", last.args, 0, blit, FALSE)
                          /\ UNCHANGED held
                   ELSE
                     \* from_raw_parts with a length above isize::MAX is undefined
                     \* behaviour: the call aborts or returns the slice
                     \E ubPanic \in (IF len.off = 1 THEN BOOLEAN ELSE {FALSE}) :
                       IF ubPanic
                         THEN /\ last' = Event("capture", "panic", last.args, 0, blit, FALSE)
                              /\ UNCHANGED held
                         ELSE /\ held' = held \cup {[hbitmap |-> hbitmap, len |-> len]}
                              /\ last' = Event("capture", "Ok", last.args, hbitmap, blit, FALSE)
    /\ mgr' = SelfAfterCapture(mgr)
    /\ UNCHANGED <<window_alive, dc_acquired, dc_released,
                   dc_mem_state, dc_mem_deletes, dropped, view>>

ChangeSize(top_left, wh) ==
    /\ mgr.state = "live"
    /\ LET m1 == [mgr EXCEPT !.wh = wh]
           m2 == [m1 EXCEPT !.top_left = top_left]
           m3 == [m2 EXCEPT !.biHeight = wh[1]]
           m4 == [m3 EXCEPT !.biHeight = Mul32(wh[2], -1).v]
       IN  mgr' = m4
    /\ last' = Event("change_size", "none", <<top_left, wh>>, 0, NoBlit, FALSE)
    /\ UNCHANGED <<overflow_checks, window_alive, dc_acquired, dc_released,
                   dc_mem_state, dc_mem_deletes, selected, bitmaps, held,
                   dropped, view>>

\* A teardown that forgets DeleteDC(dc_mem).
DropManager_noDeleteDC ==
    /\ mgr.state = "live"
    /\ mgr' = NoManager("dropped")
    /\ dc_released' = dc_released + 1
    /\ selected' = 0
    /\ last' = Event("drop_manager", "none", NoArgs, 0, NoBlit, FALSE)
    /\ UNCHANGED <<overflow_checks, window_alive, dc_acquired, bitmaps, held,
                   dropped, view, dc_mem_deletes, dc_mem_state>>

DropManager ==
    /\ mgr.state = "live"
    /\ mgr' = NoManager("dropped")
    /\ dc_released' = dc_released + 1
    /\ dc_mem_deletes' = dc_mem_deletes + 1
    /\ dc_mem_state' = "deleted"
    /\ selected' = 0
    /\ last' = Event("drop_manager", "none", NoArgs, 0, NoBlit, FALSE)
    /\ UNCHANGED <<overflow_checks, window_alive, dc_acquired, bitmaps, held,
                   dropped, view>>

\* A drop that leaves the bitmap allocated.
DeleteObject_noop(bms, h) == bms

\* DeleteObject(hbitmap): the bitmap and its pixel memory are freed.
DeleteObject(bms, h) ==
    [bms EXCEPT ![h] = [alive |-> FALSE, bw |-> 0, bh |-> 0, deletes |-> @.deletes + 1]]

DropData(d) ==
    /\ d \in held
    /\ held' = held \ {d}
    /\ dropped' = dropped \cup {d.hbitmap}
    /\ bitmaps' = DeleteObject(bitmaps, d.hbitmap)
    /\ last' = Event("drop_data", "none", NoArgs, 0, NoBlit, FALSE)
    /\ UNCHANGED <<overflow_checks, window_alive, mgr, dc_acquired, dc_released,
                   dc_mem_state, dc_mem_deletes, selected, view>>

\* view = data.bits;  (bits is a public field of type &'a [u8], and 'a is
\* not tied to the CaptureData).  view = 0: the caller has copied no slice.
CopyBits(d) ==
    /\ d \in held
    /\ view # d.hbitmap
    /\ view' = d.hbitmap
    /\ last' = Event("copy_bits", "none", NoArgs, 0, NoBlit, FALSE)
    /\ UNCHANGED <<overflow_checks, window_alive, mgr, dc_acquired, dc_released,
                   dc_mem_state, dc_mem_deletes, selected, bitmaps, held, dropped>>

\* data.bits[i] through a CaptureData the caller holds
ReadBits(d) ==
    /\ d \in held
    /\ last' = Event("read", "none", NoArgs, 0, NoBlit, ~bitmaps[d.hbitmap].alive)
    /\ UNCHANGED <<overflow_checks, window_alive, mgr, dc_acquired, dc_released,
                   dc_mem_state, dc_mem_deletes, selected, bitmaps, held,
                   dropped, view>>

\* view[i] through the copy of the bits reference
ReadView ==
    /\ view # 0
    /\ last' = Event("read", "none", NoArgs, 0, NoBlit, ~bitmaps[view].alive)
    /\ UNCHANGED <<overflow_checks, window_alive, mgr, dc_acquired, dc_released,
                   dc_mem_state, dc_mem_deletes, selected, bitmaps, held,
                   dropped, view>>

\* The target window is closed by its owner.
DestroyWindow ==
    /\ window_alive
    /\ window_alive' = FALSE
    /\ last' = Event("destroy_window", "none", NoArgs, 0, NoBlit, FALSE)
    /\ UNCHANGED <<overflow_checks, mgr, dc_acquired, dc_released, dc_mem_state,
                   dc_mem_deletes, selected, bitmaps, held, dropped, view>>

Next ==
    \/ \E hwnd \in Hwnds, r \in Regions : New(hwnd, r[1], r[2])
    \/ Capture
    \/ \E r \in Regions : ChangeSize(r[1], r[2])
    \/ DropManager
    \/ \E d \in held : DropData(d)
    \/ \E d \in held : CopyBits(d)
    \/ \E d \in held : ReadBits(d)
    \/ ReadView
    \/ DestroyWindow

Spec == Init /\ [][Next]_vars

(***************************************************************************)
(* Properties                                                              *)
(***************************************************************************)
BitmapIds == 1..Len(bitmaps)
LiveBitmaps == {i \in BitmapIds : bitmaps[i].alive}
HeldBitmaps == {d.hbitmap : d \in held}

\* wh[1] * wh[2] * 3 is representable as an i32, decided without computing it.
ProductFits(wh) ==
    \/ wh[1] = 0
    \/ wh[2] = 0
    \/ /\ Abs(wh[2]) <= MaxI32 \div 3
       /\ Abs(wh[1]) <= MaxI32 \div (3 * Abs(wh[2]))

\* The slice length len is the mathematical product wh[1] * wh[2] * 3.
LenIsProduct(len, wh) ==
    /\ len.off = 0
    /\ ProductFits(wh)
    /\ len.val = wh[1] * wh[2] * 3

CaptureReturned == last.op = "capture" /\ last.res = "Ok"
ReturnedLen == (CHOOSE d \in held : d.hbitmap = last.data).len

\* C1: every successful capture() returns a buffer whose length is exactly
\* region_size.width * region_size.height * 3 for the current region_size.
C1_LengthIsProduct ==
    CaptureReturned => LenIsProduct(ReturnedLen, mgr.wh)

\* C2: change_size(tl, (w, h)) followed immediately by a successful capture()
\* yields a buffer of length w*h*3, blits the region with origin tl and extent
\* (w, h), and uses nothing of the old geometry (the bitmap it fills is w wide
\* and |h| high).
C2_CaptureUsesNewGeometry ==
    (CaptureReturned /\ last.after_change) =>
        LET tl == last.args[1]
            wh == last.args[2]
        IN  /\ LenIsProduct(ReturnedLen, wh)
            /\ SubSeq(last.blit, 2, 5) = <<tl[1], tl[2], wh[1], wh[2]>>
            /\ bitmaps[last.data].bw = wh[1]
            /\ bitmaps[last.data].bh = Abs(wh[2])

\* C3: whenever capture() can be invoked, the pixel format's width equals
\* region_size.width and its height equals the negation of region_size.height.
C3_FormatMatchesRegion ==
    mgr.state = "live" =>
        /\ mgr.biWidth = mgr.wh[1]
        /\ mgr.biHeight = -mgr.wh[2]

\* C4: the pixel bytes are never read after the backing bitmap was destroyed.
C4_NoReadAfterRelease ==
    last.op = "read" => ~last.dangling

\* C5: no CaptureData is alive once its manager has been torn down, and the
\* surfaces are released by nothing other than the teardown.
C5_SurfacesOutliveData ==
    /\ held # {} => mgr.state = "live"
    /\ mgr.state # "dropped" => (dc_released = 0 /\ dc_mem_deletes = 0)

\* C6: the live bitmaps are exactly those owned by CaptureData values the
\* caller still holds, after any sequence of successful and failed captures.
C6_NoBitmapLeak ==
    LiveBitmaps = HeldBitmaps

\* C7: a new() that failed with AcquisitionError leaves no surface acquired.
C7_FailedNewHoldsNothing ==
    (last.op = "new" /\ last.res = "AcquisitionError") =>
        /\ dc_acquired - dc_released = 0
        /\ dc_mem_state = "none"

\* C8: teardown of a constructed manager releases source_surface and destroys
\* work_surface, each exactly once and never before the teardown, whatever
\* captures were made, and reports no error.
C8_TeardownOnce ==
    /\ mgr.state = "dropped" =>
         (dc_released = 1 /\ dc_mem_deletes = 1 /\ dc_mem_state = "deleted")
    /\ mgr.state = "live" =>
         (dc_released = 0 /\ dc_mem_deletes = 0 /\ dc_mem_state = "live")
    /\ last.op = "drop_manager" => last.res = "none"

\* A manager torn down after a capture that returned a buffer and one that
\* failed after allocating its bitmap.
C8_Witness ==
    /\ mgr.state = "dropped"
    /\ held # {}
    /\ LiveBitmaps \ HeldBitmaps # {}

WindowDestroyed == mgr.window_handle = 1 /\ ~window_alive

\* C10 (as stated): a capture() made after the target window was destroyed
\* fails with CopyError and returns no buffer.
C10_Original ==
    (last.op = "capture" /\ WindowDestroyed) =>
        (last.res = "CopyError" /\ last.data = 0)

\* C10 (amended): a capture() made after the target window was destroyed
\* returns no buffer and does not crash: it fails with AllocationError when the
\* bitmap cannot be created and with CopyError otherwise.
C10_CaptureAfterDestroyFails ==
    (last.op = "capture" /\ WindowDestroyed) =>
        /\ last.data = 0
        /\ last.res \in {"AllocationError", "CopyError"}
        /\ last.res = "AllocationError" <=> last.blit = NoBlit

\* A capture after the window was destroyed got as far as the blit.
C10_Witness ==
    /\ last.op = "capture"
    /\ WindowDestroyed
    /\ last.res = "CopyError"

\* C11: releasing a CaptureData leaves every other held CaptureData's bitmap
\* allocated and never leaves a destroyed bitmap selected into the manager's
\* work surface (dc_mem).
C11_ReleaseLeavesManagerIntact ==
    /\ \A d \in held : bitmaps[d.hbitmap].alive
    /\ mgr.state = "live" => (selected = 0 \/ bitmaps[selected].alive)

\* C12: no capture() call, successful or failed, changes top_left, wh, the
\* pixel format, window_handle or the dc and dc_mem handle values.
C12_CaptureKeepsManager ==
    [][Capture => mgr' = mgr]_vars

\* A failed capture was made on a manager that had also returned a buffer,
\* with a format width that differs from the region width.
C12_Witness ==
    /\ last.op = "capture"
    /\ last.res = "CopyError"
    /\ held # {}
    /\ mgr.biWidth # mgr.wh[1]

\* C13: a buffer returned by capture() was the destination of that call's
\* blit: its bitmap was the one selected into dc_mem when BitBlt ran.
C13_ReturnedBufferWasBlitTarget ==
    CaptureReturned => last.blit[1] = last.data

\* Bytes per row of a 24-bit DIB of width bw, padded to a multiple of 4.
Stride(bw) == ((bw * 3 + 3) \div 4) * 4

\* A slice of len bytes lies within the Stride(bw) * bh bytes of the bitmap.
\* A len of 2^64 + val (off = 1) exceeds every such allocation.
FitsAllocation(len, bw, bh) ==
    /\ len.off = 0
    /\ \/ len.val = 0
       \/ /\ bh > 0
          /\ \/ len.val \div bh < Stride(bw)
             \/ (len.val \div bh = Stride(bw) /\ len.val % bh = 0)

\* C14: the byte length of the slice returned by a successful capture() never
\* exceeds the memory allocated for its backing bitmap, which the format's
\* width and absolute height determine at 24 bits per pixel.
C14_SliceWithinAllocation ==
    CaptureReturned =>
        FitsAllocation(ReturnedLen, bitmaps[last.data].bw, bitmaps[last.data].bh)

\* C15: for every geometry for which capture() succeeds, wh.0 * wh.1 * 3
\* computed in i32 and converted to usize does not wrap, is not negative, and
\* equals the mathematical product.
C15_LengthArithmeticExact ==
    CaptureReturned =>
        LET n == SliceLen32(mgr.wh)
            u == AsUsize(n.v)
        IN  /\ ~n.ov
            /\ n.v >= 0
            /\ u.off = 0
            /\ ProductFits(mgr.wh)
            /\ u.val = mgr.wh[1] * mgr.wh[2] * 3

====
